---------------------------- MODULE Spec2Model ----------------------------
(***************************************************************************)
(* Model of the ice-cream parlor (src/main.py): the priced core (Portion,  *)
(* Order, Shift) and the session that drives it (IceCreamParlor).          *)
(*                                                                         *)
(* Objects live on two heaps in construction order: orders[i] is the i-th  *)
(* Order ever constructed, shiftobjs[i] the i-th Shift.  A reference to an *)
(* object is its heap index; None is 0.  Catalog entries are referenced by *)
(* their 1-based position in the catalog lists; a topping of None is 0.    *)
(* datetime.datetime.now() reads a wall clock that may or may not have     *)
(* advanced since the previous reading; instants are 1..MaxTime and an     *)
(* unset Optional[datetime] is None.                                       *)
(***************************************************************************)
EXTENDS Integers, Sequences, FiniteSets, TLC

VARIABLES
    order_counter,   \* Order._order_counter
    shift_counter,   \* Shift._shift_counter
    orders,          \* heap of Order objects
    shiftobjs,       \* heap of Shift objects
    clock,           \* last instant datetime.now() returned
    call,            \* the call made by the last step, and how it ended
    added,           \* history: per Shift, the orders whose add_order returned normally
    shifts,          \* IceCreamParlor.shifts
    current_shift,   \* IceCreamParlor.current_shift
    pc,              \* where the session's control is (which prompt it waits at)
    loc,             \* locals of create_order / create_portion
    pin              \* arguments handed to Portion(...), what the constructor did,
                     \* and the prices read from the portion it returned

vars == <<order_counter, shift_counter, orders, shiftobjs, clock, call, added,
          shifts, current_shift, pc, loc, pin>>

coreVars == <<order_counter, shift_counter, orders, shiftobjs, clock, added>>
sessionVars == <<shifts, current_shift, pc, loc>>

None == 0

---------------------------------------------------------------------------
(* Bounds of the model *)

MaxObjects == 2       \* Orders and Shifts, together, constructed by the direct caller
MaxPortions == 1      \* portions appended to one order
MaxShiftOrders == 2   \* orders appended to one shift by the direct caller
MaxTime == 2          \* instants the clock can show
MaxSessionObjects == 3   \* Shifts opened and Orders started, together, by the operator
MaxSessionPortions == 1  \* Portions the operator builds in a run
MaxLines == 2         \* length of the lists handed to Portion(...)
MaxCount == 3         \* largest ball count handed to Portion(...)
MaxBelow == 1         \* how far below zero a ball count handed to Portion(...) goes
MaxReads == 2         \* readings of total_price taken from one portion

---------------------------------------------------------------------------
(* Catalog: the records IceCreamParlor.__init__ builds from the data files *)

flavors == << [name |-> "vanilla", price_per_ball |-> 50],
              [name |-> "pistachio", price_per_ball |-> 80] >>

topings == << [name |-> "syrup", price |-> 30] >>

containers == << [type_name |-> "cone", max_balls |-> 1, base_price |-> 0],
                 [type_name |-> "cup", max_balls |-> 2, base_price |-> 30] >>

---------------------------------------------------------------------------
(* Helpers *)

RECURSIVE SumSeq(_)
SumSeq(s) == IF s = <<>> THEN 0 ELSE Head(s) + SumSeq(Tail(s))

SeqsUpTo(S, n) == UNION { [1..k -> S] : k \in 0..n }

\* datetime.datetime.now(): the clock's reading, not earlier than the last one
NowValues == { t \in {clock, clock + 1} : t <= MaxTime }


---------------------------------------------------------------------------
(* Portion *)

NoPortion == [flavors |-> <<>>, balls_count |-> <<>>, container |-> None, topping |-> None]

\* Portion.__init__ with its two checks in the other order
Portion_init_capacity_first(fl, bc, c, t) ==
    IF SumSeq(bc) > containers[c].max_balls
    THEN [res |-> "CapacityExceeded", portion |-> NoPortion]
    ELSE IF Len(bc) # Len(fl)
    THEN [res |-> "LengthMismatch", portion |-> NoPortion]
    ELSE [res |-> "ok",
          portion |-> [flavors |-> fl, balls_count |-> bc, container |-> c, topping |-> t]]

\* Portion.__init__: the two raises, then the four assignments
Portion_init(fl, bc, c, t) ==
    IF Len(bc) # Len(fl)
    THEN [res |-> "LengthMismatch", portion |-> NoPortion]
    ELSE IF SumSeq(bc) > containers[c].max_balls
    THEN [res |-> "CapacityExceeded", portion |-> NoPortion]
    ELSE [res |-> "ok",
          portion |-> [flavors |-> fl, balls_count |-> bc, container |-> c, topping |-> t]]

Min(a, b) == IF a <= b THEN a ELSE b

\* Portion.total_price charging one ball per line
Portion_total_price_per_line(p) ==
    containers[p.container].base_price
    + SumSeq([i \in 1..Min(Len(p.flavors), Len(p.balls_count)) |->
                flavors[p.flavors[i]].price_per_ball])
    + (IF p.topping # None THEN topings[p.topping].price ELSE 0)

\* Portion.total_price: zip() stops at the shorter list
Portion_total_price(p) ==
    containers[p.container].base_price
    + SumSeq([i \in 1..Min(Len(p.flavors), Len(p.balls_count)) |->
                flavors[p.flavors[i]].price_per_ball * p.balls_count[i]])
    + (IF p.topping # None THEN topings[p.topping].price ELSE 0)

---------------------------------------------------------------------------
(* Order *)

\* Order.__init__ taking the number before it increments the counter
Order_init_numbers_first(counter) ==
    [counter |-> counter + 1,
     order |-> [number |-> counter, portions |-> <<>>, paid |-> FALSE,
                time_of_payment |-> None]]

\* Order.__init__, given Order._order_counter: the new counter and the object
Order_init(counter) ==
    [counter |-> counter + 1,
     order |-> [number |-> counter + 1, portions |-> <<>>, paid |-> FALSE,
                time_of_payment |-> None]]

\* Order.total_price
Order_total_price(o) ==
    SumSeq([i \in 1..Len(o.portions) |-> Portion_total_price(o.portions[i])])

\* Order.add_portion
Order_add_portion(o, p) == [o EXCEPT !.portions = Append(@, p)]

\* Order.pay without its check for an empty order
Order_pay_unchecked(o, clk, t) ==
    [res |-> "ok",
     order |-> [o EXCEPT !.paid = TRUE, !.time_of_payment = t],
     clock |-> t]

\* Order.pay marking the order paid before it checks for portions
Order_pay_marks_first(o, clk, t) ==
    IF o.portions = <<>>
    THEN [res |-> "EmptyOrder", order |-> [o EXCEPT !.paid = TRUE], clock |-> clk]
    ELSE [res |-> "ok",
          order |-> [o EXCEPT !.paid = TRUE, !.time_of_payment = t],
          clock |-> t]

\* Order.pay; clk is the clock before the call, t what now() returns if it is read
Order_pay(o, clk, t) ==
    IF o.portions = <<>>
    THEN [res |-> "EmptyOrder", order |-> o, clock |-> clk]
    ELSE [res |-> "ok",
          order |-> [o EXCEPT !.paid = TRUE, !.time_of_payment = t],
          clock |-> t]

---------------------------------------------------------------------------
(* Shift *)

\* Shift.__init__, given Shift._shift_counter
Shift_init(counter) ==
    [counter |-> counter + 1,
     shift |-> [number |-> counter + 1, start_time |-> None, end_time |-> None,
                orders |-> <<>>]]

\* Shift.is_open
is_open(sh) == sh.start_time # None /\ sh.end_time = None

\* Shift.revenue: the orders list holds references, so prices are read from the heap
Shift_revenue(sh, heap) ==
    SumSeq([i \in 1..Len(sh.orders) |-> Order_total_price(heap[sh.orders[i]])])

\* Shift.open without its refusal of a closed shift
Shift_open_reopens(sh, clk, t) ==
    IF is_open(sh)
    THEN [res |-> "noop", shift |-> sh, clock |-> clk]
    ELSE [res |-> "opened", shift |-> [sh EXCEPT !.start_time = t], clock |-> t]

\* Shift.open without its early return on an open shift
Shift_open_restamps(sh, clk, t) ==
    IF sh.end_time # None
    THEN [res |-> "ReopenClosed", shift |-> sh, clock |-> clk]
    ELSE [res |-> "opened", shift |-> [sh EXCEPT !.start_time = t], clock |-> t]

\* Shift.open
Shift_open(sh, clk, t) ==
    IF is_open(sh)
    THEN [res |-> "noop", shift |-> sh, clock |-> clk]
    ELSE IF sh.end_time # None
    THEN [res |-> "ReopenClosed", shift |-> sh, clock |-> clk]
    ELSE [res |-> "opened", shift |-> [sh EXCEPT !.start_time = t], clock |-> t]

\* Shift.close without its check that the shift is open
Shift_close_unguarded(sh, clk, t) ==
    [res |-> "closed", shift |-> [sh EXCEPT !.end_time = t], clock |-> t]

\* Shift.close checking only that the shift has not been closed
Shift_close_unopened(sh, clk, t) ==
    IF sh.end_time # None
    THEN [res |-> "NotOpened", shift |-> sh, clock |-> clk]
    ELSE [res |-> "closed", shift |-> [sh EXCEPT !.end_time = t], clock |-> t]

\* Shift.close
Shift_close(sh, clk, t) ==
    IF ~is_open(sh)
    THEN [res |-> "NotOpened", shift |-> sh, clock |-> clk]
    ELSE [res |-> "closed", shift |-> [sh EXCEPT !.end_time = t], clock |-> t]

\* Shift.add_order paying the order before it looks at the shift
Shift_add_order_pays_first(sh, oid, o, clk, t) ==
    LET p == Order_pay(o, clk, t)
    IN  IF p.res # "ok"
        THEN [res |-> p.res, shift |-> sh, order |-> p.order, clock |-> p.clock]
        ELSE IF ~is_open(sh)
        THEN [res |-> "AddToClosed", shift |-> sh, order |-> p.order, clock |-> p.clock]
        ELSE [res |-> "paid",
              shift |-> [sh EXCEPT !.orders = Append(@, oid)],
              order |-> p.order, clock |-> p.clock]

\* Shift.add_order appending the order before it pays it
Shift_add_order_appends_first(sh, oid, o, clk, t) ==
    IF ~is_open(sh)
    THEN [res |-> "AddToClosed", shift |-> sh, order |-> o, clock |-> clk]
    ELSE LET p == Order_pay(o, clk, t)
         IN  [res |-> IF p.res # "ok" THEN p.res ELSE "paid",
              shift |-> [sh EXCEPT !.orders = Append(@, oid)],
              order |-> p.order, clock |-> p.clock]

\* Shift.add_order that forgets to pay the order
Shift_add_order_no_pay(sh, oid, o, clk, t) ==
    IF ~is_open(sh)
    THEN [res |-> "AddToClosed", shift |-> sh, order |-> o, clock |-> clk]
    ELSE [res |-> "paid",
          shift |-> [sh EXCEPT !.orders = Append(@, oid)],
          order |-> o, clock |-> clk]

\* Shift.add_order; oid is the reference to order o
Shift_add_order(sh, oid, o, clk, t) ==
    IF ~is_open(sh)
    THEN [res |-> "AddToClosed", shift |-> sh, order |-> o, clock |-> clk]
    ELSE LET p == Order_pay(o, clk, t)
         IN  IF p.res # "ok"
             THEN [res |-> p.res, shift |-> sh, order |-> p.order, clock |-> p.clock]
             ELSE [res |-> "paid",
                   shift |-> [sh EXCEPT !.orders = Append(@, oid)],
                   order |-> p.order, clock |-> p.clock]

Errors == {"LengthMismatch", "CapacityExceeded", "EmptyOrder", "ReopenClosed",
           "NotOpened", "AddToClosed"}

---------------------------------------------------------------------------
(* Initial state: nothing constructed, the session at its action prompt *)

NoLocals == [order |-> None, container |-> None, flavors |-> <<>>,
             balls_count |-> <<>>, remaining_balls |-> 0, flavor |-> None]

NoPin == [flavors |-> <<>>, balls_count |-> <<>>, container |-> None,
          topping |-> None, res |-> "none", portion |-> NoPortion, reads |-> <<>>]

Called(op, s, o, res) == [op |-> op, s |-> s, o |-> o, res |-> res]

Init ==
    /\ order_counter = 0
    /\ shift_counter = 0
    /\ orders = <<>>
    /\ shiftobjs = <<>>
    /\ clock = 1
    /\ call = Called("none", None, None, "none")
    /\ added = <<>>
    /\ shifts = <<>>
    /\ current_shift = None
    /\ pc = "menu"
    /\ loc = NoLocals
    /\ pin = NoPin

---------------------------------------------------------------------------
(* The core driven directly: any call on any constructed object *)

Orders == 1..Len(orders)
Shifts == 1..Len(shiftobjs)

\* arguments the direct caller builds portions from: two that fit, one that does not
SamplePortionArgs ==
    { << <<1>>, <<1>>, 1, None >>,
      << <<1, 2>>, <<1, 1>>, 2, 1 >>,
      << <<2>>, <<2>>, 1, None >> }

\* Order()
NewOrder ==
    /\ order_counter + shift_counter < MaxObjects
    /\ LET r == Order_init(order_counter)
       IN  /\ order_counter' = r.counter
           /\ orders' = Append(orders, r.order)
           /\ call' = Called("Order", None, Len(orders) + 1, "ok")
    /\ UNCHANGED <<shift_counter, shiftobjs, clock, added, sessionVars, pin>>

\* order.add_portion(Portion(...))
AddPortion(o) ==
    /\ Len(orders[o].portions) < MaxPortions
    /\ \E a \in SamplePortionArgs :
         LET r == Portion_init(a[1], a[2], a[3], a[4])
         IN  IF r.res # "ok"
             THEN /\ call' = Called("Portion", None, None, r.res)
                  /\ UNCHANGED orders
             ELSE /\ orders' = [orders EXCEPT ![o] = Order_add_portion(@, r.portion)]
                  /\ call' = Called("add_portion", None, o, "ok")
    /\ UNCHANGED <<order_counter, shift_counter, shiftobjs, clock, added, sessionVars, pin>>

\* order.pay()
Pay(o) ==
    /\ \E t \in NowValues :
         LET r == Order_pay(orders[o], clock, t)
         IN  /\ orders' = [orders EXCEPT ![o] = r.order]
             /\ clock' = r.clock
             /\ call' = Called("pay", None, o, r.res)
    /\ UNCHANGED <<order_counter, shift_counter, shiftobjs, added, sessionVars, pin>>

\* Shift() drawing its number from the counter of the orders
NewShift_shares_counter ==
    /\ order_counter + shift_counter < MaxObjects
    /\ LET r == Shift_init(order_counter)
       IN  /\ order_counter' = r.counter
           /\ shiftobjs' = Append(shiftobjs, r.shift)
           /\ added' = Append(added, <<>>)
           /\ call' = Called("Shift", Len(shiftobjs) + 1, None, "ok")
    /\ UNCHANGED <<shift_counter, orders, clock, sessionVars, pin>>

\* Shift()
NewShift ==
    /\ order_counter + shift_counter < MaxObjects
    /\ LET r == Shift_init(shift_counter)
       IN  /\ shift_counter' = r.counter
           /\ shiftobjs' = Append(shiftobjs, r.shift)
           /\ added' = Append(added, <<>>)
           /\ call' = Called("Shift", Len(shiftobjs) + 1, None, "ok")
    /\ UNCHANGED <<order_counter, orders, clock, sessionVars, pin>>

\* shift.open()
Open(s) ==
    /\ \E t \in NowValues :
         LET r == Shift_open(shiftobjs[s], clock, t)
         IN  /\ shiftobjs' = [shiftobjs EXCEPT ![s] = r.shift]
             /\ clock' = r.clock
             /\ call' = Called("open", s, None, r.res)
    /\ UNCHANGED <<order_counter, shift_counter, orders, added, sessionVars, pin>>

\* shift.close()
Close(s) ==
    /\ \E t \in NowValues :
         LET r == Shift_close(shiftobjs[s], clock, t)
         IN  /\ shiftobjs' = [shiftobjs EXCEPT ![s] = r.shift]
             /\ clock' = r.clock
             /\ call' = Called("close", s, None, r.res)
    /\ UNCHANGED <<order_counter, shift_counter, orders, added, sessionVars, pin>>

\* shift.add_order(order)
AddOrder(s, o) ==
    /\ is_open(shiftobjs[s]) => Len(shiftobjs[s].orders) < MaxShiftOrders
    /\ \E t \in NowValues :
         LET r == Shift_add_order(shiftobjs[s], o, orders[o], clock, t)
         IN  /\ shiftobjs' = [shiftobjs EXCEPT ![s] = r.shift]
             /\ orders' = [orders EXCEPT ![o] = r.order]
             /\ clock' = r.clock
             /\ call' = Called("add_order", s, o, r.res)
             /\ added' = IF r.res \in Errors THEN added
                         ELSE [added EXCEPT ![s] = Append(@, o)]
    /\ UNCHANGED <<order_counter, shift_counter, sessionVars, pin>>

Next ==
    \/ NewOrder
    \/ NewShift
    \/ \E o \in Orders : AddPortion(o)
    \/ \E o \in Orders : Pay(o)
    \/ \E s \in Shifts : Open(s)
    \/ \E s \in Shifts : Close(s)
    \/ \E s \in Shifts, o \in Orders : AddOrder(s, o)

Spec == Init /\ [][Next]_vars

---------------------------------------------------------------------------
(* Portion(...) on its own: the arguments are drawn first, then the         *)
(* constructor runs on them                                                *)

CountValues == (0 - MaxBelow)..MaxCount

PortionInputs ==
    { [flavors |-> fl, balls_count |-> bc, container |-> c, topping |-> t,
       res |-> "pending", portion |-> NoPortion, reads |-> <<>>] :
        fl \in SeqsUpTo(1..Len(flavors), MaxLines),
        bc \in SeqsUpTo(CountValues, MaxLines),
        c \in 1..Len(containers),
        t \in 0..Len(topings) }

PortionInit ==
    /\ order_counter = 0
    /\ shift_counter = 0
    /\ orders = <<>>
    /\ shiftobjs = <<>>
    /\ clock = 1
    /\ call = Called("none", None, None, "none")
    /\ added = <<>>
    /\ shifts = <<>>
    /\ current_shift = None
    /\ pc = "menu"
    /\ loc = NoLocals
    /\ pin \in PortionInputs

\* Portion(flavors, balls_count, container, topping)
PortionConstruct ==
    /\ pin.res = "pending"
    /\ LET r == Portion_init(pin.flavors, pin.balls_count, pin.container, pin.topping)
       IN  pin' = [pin EXCEPT !.res = r.res, !.portion = r.portion]
    /\ UNCHANGED <<coreVars, call, sessionVars>>

\* portion.total_price, read from the portion the constructor returned
PortionPrice ==
    /\ pin.res = "ok"
    /\ Len(pin.reads) < MaxReads
    /\ pin' = [pin EXCEPT !.reads = Append(@, Portion_total_price(pin.portion))]
    /\ UNCHANGED <<coreVars, call, sessionVars>>

PortionNext ==
    \/ PortionConstruct
    \/ PortionPrice

PortionSpec == PortionInit /\ [][PortionNext]_vars

---------------------------------------------------------------------------
(* The session: IceCreamParlor.run and the handlers it dispatches to.  One  *)
(* step is one answer of the operator at the prompt the session waits at;   *)
(* an answer a prompt rejects is asked again and changes nothing.  An       *)
(* exception no handler catches ends the process: pc = "crashed".  The      *)
(* actions 'M', 'S' and 'D' (Menu.show, _show_shift_summary,               *)
(* _show_dayly_summary) only print: they are stuttering steps.             *)

\* portions built so far in this run
PortionsBuilt == SumSeq([i \in 1..Len(orders) |-> Len(orders[i].portions)])

ShiftIsOpen(ref) == ref # None /\ is_open(shiftobjs[ref])

\* _open_shift without its check for a shift that is already open
OpenShift_unguarded ==
    /\ pc = "menu"
    /\ order_counter + shift_counter < MaxSessionObjects
    /\ \E t \in NowValues :
         LET new == Shift_init(shift_counter)
             ref == Len(shiftobjs) + 1
             r == Shift_open(new.shift, clock, t)
         IN  /\ shift_counter' = new.counter
             /\ current_shift' = ref
             /\ shiftobjs' = Append(shiftobjs, r.shift)
             /\ added' = Append(added, <<>>)
             /\ clock' = r.clock
             /\ call' = Called("_open_shift", ref, None, r.res)
             /\ pc' = "menu"
             /\ shifts' = Append(shifts, ref)
    /\ UNCHANGED <<order_counter, orders, loc, pin>>

\* _open_shift
OpenShift ==
    /\ pc = "menu"
    /\ IF ShiftIsOpen(current_shift)
       THEN /\ call' = Called("_open_shift", current_shift, None, "already_opened")
            /\ UNCHANGED <<coreVars, sessionVars>>
       ELSE /\ order_counter + shift_counter < MaxSessionObjects
            /\ \E t \in NowValues :
                 LET new == Shift_init(shift_counter)
                     ref == Len(shiftobjs) + 1
                     r == Shift_open(new.shift, clock, t)
                 IN  /\ shift_counter' = new.counter
                     /\ current_shift' = ref
                     /\ shiftobjs' = Append(shiftobjs, r.shift)
                     /\ added' = Append(added, <<>>)
                     /\ clock' = r.clock
                     /\ call' = Called("_open_shift", ref, None, r.res)
                     /\ IF r.res \in Errors
                        THEN pc' = "crashed" /\ UNCHANGED shifts
                        ELSE pc' = "menu" /\ shifts' = Append(shifts, ref)
            /\ UNCHANGED <<order_counter, orders, loc>>
    /\ UNCHANGED pin

\* _close_shift without its last line, the reset of current_shift
close_shift_keeps_current(t) ==
    IF ~ShiftIsOpen(current_shift)
    THEN [res |-> "no_open_shift", shiftobjs |-> shiftobjs,
          current_shift |-> current_shift, clock |-> clock]
    ELSE LET r == Shift_close(shiftobjs[current_shift], clock, t)
         IN  [res |-> r.res,
              shiftobjs |-> [shiftobjs EXCEPT ![current_shift] = r.shift],
              current_shift |-> current_shift,
              clock |-> r.clock]

\* _close_shift, from the state at its entry: what it leaves in shiftobjs,
\* current_shift, clock, and how it ended
close_shift(t) ==
    IF ~ShiftIsOpen(current_shift)
    THEN [res |-> "no_open_shift", shiftobjs |-> shiftobjs,
          current_shift |-> current_shift, clock |-> clock]
    ELSE LET r == Shift_close(shiftobjs[current_shift], clock, t)
         IN  [res |-> r.res,
              shiftobjs |-> [shiftobjs EXCEPT ![current_shift] = r.shift],
              current_shift |-> IF r.res \in Errors THEN current_shift ELSE None,
              clock |-> r.clock]

\* run, action 'C'
CloseShift ==
    /\ pc = "menu"
    /\ \E t \in NowValues :
         LET r == close_shift(t)
         IN  /\ shiftobjs' = r.shiftobjs
             /\ current_shift' = r.current_shift
             /\ clock' = r.clock
             /\ call' = Called("_close_shift", current_shift, None, r.res)
             /\ pc' = IF r.res \in Errors THEN "crashed" ELSE "menu"
    /\ UNCHANGED <<order_counter, shift_counter, orders, added, shifts, loc, pin>>

\* _quit: closes the open shift, prints the summary, exits
Quit ==
    /\ pc = "menu"
    /\ \E t \in NowValues :
         LET r == close_shift(t)
         IN  /\ shiftobjs' = r.shiftobjs
             /\ current_shift' = r.current_shift
             /\ clock' = r.clock
             /\ call' = Called("_quit", current_shift, None, r.res)
             /\ pc' = IF r.res \in Errors THEN "crashed" ELSE "exited"
    /\ UNCHANGED <<order_counter, shift_counter, orders, added, shifts, loc, pin>>

\* create_order marking the order paid when it constructs it
CreateOrder_paid_up_front ==
    /\ pc = "menu"
    /\ IF ~ShiftIsOpen(current_shift)
       THEN /\ call' = Called("create_order", current_shift, None, "open_shift_first")
            /\ UNCHANGED <<order_counter, orders, pc, loc>>
       ELSE /\ order_counter + shift_counter < MaxSessionObjects
            /\ LET new == Order_init(order_counter)
               IN  /\ order_counter' = new.counter
                   /\ orders' = Append(orders, [new.order EXCEPT !.paid = TRUE])
                   /\ loc' = [NoLocals EXCEPT !.order = Len(orders) + 1]
                   /\ call' = Called("Order", current_shift, Len(orders) + 1, "ok")
            /\ pc' = "container"
    /\ UNCHANGED <<shift_counter, shiftobjs, clock, added, shifts, current_shift, pin>>

\* create_order up to its first prompt
CreateOrder ==
    /\ pc = "menu"
    /\ IF ~ShiftIsOpen(current_shift)
       THEN /\ call' = Called("create_order", current_shift, None, "open_shift_first")
            /\ UNCHANGED <<order_counter, orders, pc, loc>>
       ELSE /\ order_counter + shift_counter < MaxSessionObjects
            /\ LET new == Order_init(order_counter)
               IN  /\ order_counter' = new.counter
                   /\ orders' = Append(orders, new.order)
                   /\ loc' = [NoLocals EXCEPT !.order = Len(orders) + 1]
                   /\ call' = Called("Order", current_shift, Len(orders) + 1, "ok")
            /\ pc' = "container"
    /\ UNCHANGED <<shift_counter, shiftobjs, clock, added, shifts, current_shift, pin>>

\* create_portion: the container prompt; 'X' is None
SelectContainer ==
    /\ pc = "container"
    /\ \E c \in 0..Len(containers) :
         IF c = None
         THEN /\ pc' = "another"
              /\ call' = Called("create_portion", None, loc.order, "cancelled")
              /\ UNCHANGED loc
         ELSE /\ PortionsBuilt < MaxSessionPortions
              /\ loc' = [loc EXCEPT !.container = c, !.flavors = <<>>,
                                    !.balls_count = <<>>, !.flavor = None,
                                    !.remaining_balls = containers[c].max_balls]
              /\ pc' = IF containers[c].max_balls > 0 THEN "flavor" ELSE "topping"
              /\ call' = Called("_select_item", None, loc.order, "container")
    /\ UNCHANGED <<coreVars, shifts, current_shift, pin>>

\* create_portion: the flavor prompt; 'X' is None
SelectFlavor ==
    /\ pc = "flavor"
    /\ \E f \in 0..Len(flavors) :
         IF f = None
         THEN /\ IF loc.flavors = <<>>
                 THEN /\ pc' = "another"
                      /\ call' = Called("create_portion", None, loc.order, "cancelled")
                 ELSE /\ pc' = "topping"
                      /\ call' = Called("_select_item", None, loc.order, "no_more_flavors")
              /\ UNCHANGED loc
         ELSE /\ loc' = [loc EXCEPT !.flavor = f]
              /\ pc' = "count"
              /\ call' = Called("_select_item", None, loc.order, "flavor")
    /\ UNCHANGED <<coreVars, shifts, current_shift, pin>>

\* the scoops prompt accepting up to the container's capacity every time
SelectScoops_up_to_capacity ==
    /\ pc = "count"
    /\ \E balls \in 1..containers[loc.container].max_balls :
         /\ loc' = [loc EXCEPT !.flavors = Append(@, loc.flavor),
                               !.balls_count = Append(@, balls),
                               !.remaining_balls = @ - balls,
                               !.flavor = None]
         /\ pc' = IF loc.remaining_balls - balls = 0 THEN "topping" ELSE "more"
    /\ call' = Called("_get_valid_input", None, loc.order, "scoops")
    /\ UNCHANGED <<coreVars, shifts, current_shift, pin>>

\* create_portion: the scoops prompt, _get_valid_input(1, remaining_balls)
SelectScoops ==
    /\ pc = "count"
    /\ \E balls \in 1..loc.remaining_balls :
         /\ loc' = [loc EXCEPT !.flavors = Append(@, loc.flavor),
                               !.balls_count = Append(@, balls),
                               !.remaining_balls = @ - balls,
                               !.flavor = None]
         /\ pc' = IF loc.remaining_balls - balls = 0 THEN "topping" ELSE "more"
    /\ call' = Called("_get_valid_input", None, loc.order, "scoops")
    /\ UNCHANGED <<coreVars, shifts, current_shift, pin>>

\* create_portion: "Add more flavors?"; yes goes back to the loop's test
MoreFlavors ==
    /\ pc = "more"
    /\ \E yes \in BOOLEAN :
         /\ pc' = IF yes /\ loc.remaining_balls > 0 THEN "flavor" ELSE "topping"
         /\ call' = Called("_get_yes_no_input", None, loc.order,
                           IF yes THEN "more_flavors" ELSE "no_more_flavors")
    /\ UNCHANGED <<coreVars, shifts, current_shift, loc, pin>>

\* create_portion's last line, Portion(flavors, balls_count, container, topping),
\* and create_order's add_portion of what it returns
BuildPortion(t) ==
    LET r == Portion_init(loc.flavors, loc.balls_count, loc.container, t)
    IN  /\ call' = Called("Portion", None, loc.order, r.res)
        /\ IF r.res \in Errors
           THEN pc' = "crashed" /\ UNCHANGED orders
           ELSE /\ pc' = "another"
                /\ orders' = [orders EXCEPT ![loc.order] = Order_add_portion(@, r.portion)]

\* create_portion: "Add topping?"
AddTopping ==
    /\ pc = "topping"
    /\ \E yes \in BOOLEAN :
         IF yes
         THEN /\ pc' = "select_topping"
              /\ call' = Called("_get_yes_no_input", None, loc.order, "topping")
              /\ UNCHANGED orders
         ELSE BuildPortion(None)
    /\ UNCHANGED <<order_counter, shift_counter, shiftobjs, clock, added,
                   shifts, current_shift, loc, pin>>

\* create_portion: the topping prompt; 'X' is None
SelectTopping ==
    /\ pc = "select_topping"
    /\ \E t \in 0..Len(topings) : BuildPortion(t)
    /\ UNCHANGED <<order_counter, shift_counter, shiftobjs, clock, added,
                   shifts, current_shift, loc, pin>>

\* the end of create_order without its test for an order without portions
AnotherPortion_adds_empty ==
    /\ pc = "another"
    /\ \E yes \in BOOLEAN :
         IF yes
         THEN /\ pc' = "container"
              /\ call' = Called("_get_yes_no_input", None, loc.order, "another_portion")
              /\ UNCHANGED <<coreVars, loc>>
         ELSE \E t \in NowValues :
                LET r == Shift_add_order(shiftobjs[current_shift], loc.order,
                                         orders[loc.order], clock, t)
                IN  /\ shiftobjs' = [shiftobjs EXCEPT ![current_shift] = r.shift]
                    /\ orders' = [orders EXCEPT ![loc.order] = r.order]
                    /\ clock' = r.clock
                    /\ call' = Called("add_order", current_shift, loc.order, r.res)
                    /\ added' = IF r.res \in Errors THEN added
                                ELSE [added EXCEPT ![current_shift] = Append(@, loc.order)]
                    /\ pc' = IF r.res \in Errors THEN "crashed" ELSE "menu"
                    /\ loc' = NoLocals
                    /\ UNCHANGED <<order_counter, shift_counter>>
    /\ UNCHANGED <<shifts, current_shift, pin>>

\* create_order: "Add another portion?", and after a no the end of create_order
AnotherPortion ==
    /\ pc = "another"
    /\ \E yes \in BOOLEAN :
         IF yes
         THEN /\ pc' = "container"
              /\ call' = Called("_get_yes_no_input", None, loc.order, "another_portion")
              /\ UNCHANGED <<coreVars, loc>>
         ELSE IF orders[loc.order].portions = <<>>
         THEN /\ pc' = "menu"
              /\ loc' = NoLocals
              /\ call' = Called("create_order", current_shift, loc.order, "cancelled")
              /\ UNCHANGED coreVars
         ELSE \E t \in NowValues :
                LET r == Shift_add_order(shiftobjs[current_shift], loc.order,
                                         orders[loc.order], clock, t)
                IN  /\ shiftobjs' = [shiftobjs EXCEPT ![current_shift] = r.shift]
                    /\ orders' = [orders EXCEPT ![loc.order] = r.order]
                    /\ clock' = r.clock
                    /\ call' = Called("add_order", current_shift, loc.order, r.res)
                    /\ added' = IF r.res \in Errors THEN added
                                ELSE [added EXCEPT ![current_shift] = Append(@, loc.order)]
                    /\ pc' = IF r.res \in Errors THEN "crashed" ELSE "menu"
                    /\ loc' = NoLocals
                    /\ UNCHANGED <<order_counter, shift_counter>>
    /\ UNCHANGED <<shifts, current_shift, pin>>

SessionNext ==
    \/ OpenShift
    \/ CloseShift
    \/ Quit
    \/ CreateOrder
    \/ SelectContainer
    \/ SelectFlavor
    \/ SelectScoops
    \/ MoreFlavors
    \/ AddTopping
    \/ SelectTopping
    \/ AnotherPortion

SessionSpec == Init /\ [][SessionNext]_vars

---------------------------------------------------------------------------
(* Properties *)

\* close() has succeeded on the shift
Closed(sh) == sh.end_time # None

\* what the history says a shift has earned: the prices, as they are now, of the
\* orders whose add_order returned normally, one term per addition
AddedTotal(s) ==
    SumSeq([i \in 1..Len(added[s]) |-> Order_total_price(orders[added[s][i]])])

(* C1: CLOSED is terminal.  Once a shift has an end time, every step leaves  *)
(* its start and end time as they are and the shift not open, and a step     *)
(* that is open() on it ends with the reopen error.                          *)
C1_ClosedIsTerminal ==
    [][\A s \in Shifts :
         Closed(shiftobjs[s]) =>
           /\ shiftobjs'[s].start_time = shiftobjs[s].start_time
           /\ shiftobjs'[s].end_time = shiftobjs[s].end_time
           /\ ~is_open(shiftobjs'[s])
           /\ (call'.op = "open" /\ call'.s = s => call'.res = "ReopenClosed")]_vars

C1_Witness ==
    /\ call.op = "open"
    /\ call.res = "ReopenClosed"
    /\ Closed(shiftobjs[call.s])

(* C2: pay() succeeds exactly once.  Once an order is paid, no step is a     *)
(* pay() or add_order() on it that returns normally, and no step changes its *)
(* payment time.                                                             *)
C2_PaysExactlyOnce ==
    [][\A o \in Orders :
         orders[o].paid =>
           /\ orders'[o].time_of_payment = orders[o].time_of_payment
           /\ ~(/\ call'.op \in {"pay", "add_order"}
                /\ call'.o = o
                /\ call'.res \notin Errors)]_vars

\* a composition the data model allows for the portion's container
C3_ComposedOK(p) ==
    /\ \A i \in 1..Len(p.balls_count) : p.balls_count[i] >= 1
    /\ 1 <= SumSeq(p.balls_count)
    /\ SumSeq(p.balls_count) <= containers[p.container].max_balls

(* C3: for equally long lists, Portion(...) succeeds if and only if every    *)
(* count is >= 1 and 1 <= sum(balls_count) <= container.max_balls; a sum     *)
(* above the capacity gets the capacity error, every other rejected          *)
(* composition the composition error.                                        *)
C3_ConstructsIffComposed ==
    (pin.res # "pending" /\ Len(pin.flavors) = Len(pin.balls_count)) =>
        /\ pin.res = "ok" <=> C3_ComposedOK(pin)
        /\ SumSeq(pin.balls_count) > containers[pin.container].max_balls
             => pin.res = "CapacityExceeded"
        /\ (/\ SumSeq(pin.balls_count) <= containers[pin.container].max_balls
            /\ (\/ pin.balls_count = <<>>
                \/ \E i \in 1..Len(pin.balls_count) : pin.balls_count[i] <= 0))
             => pin.res = "LengthMismatch"

(* C4: add_order on a shift that is not open ends with the shift-not-open    *)
(* error and changes neither the shift (its order list, its revenue) nor the *)
(* order (an unpaid order stays unpaid, without a payment time).             *)
C4_AddOrderNeedsOpenShift ==
    [][(call'.op = "add_order" /\ ~is_open(shiftobjs[call'.s])) =>
         /\ call'.res = "AddToClosed"
         /\ shiftobjs' = shiftobjs
         /\ orders' = orders
         /\ Shift_revenue(shiftobjs'[call'.s], orders')
              = Shift_revenue(shiftobjs[call'.s], orders)
         /\ (~orders[call'.o].paid =>
               ~orders'[call'.o].paid /\ orders'[call'.o].time_of_payment = None)]_vars

C4_Witness ==
    /\ call.op = "add_order"
    /\ call.res = "AddToClosed"
    /\ Closed(shiftobjs[call.s])
    /\ orders[call.o].portions # <<>>
    /\ ~orders[call.o].paid
    /\ orders[call.o].time_of_payment = None

\* in a state: the revenue is what the additions that succeeded add up to
C5_RevenueOfAdded ==
    \A s \in Shifts :
        /\ Shift_revenue(shiftobjs[s], orders) = AddedTotal(s)
        /\ shiftobjs[s].orders = <<>> => Shift_revenue(shiftobjs[s], orders) = 0

\* in a step: a close() leaves every shift's revenue as it was
C5_CloseKeepsRevenue ==
    call'.op = "close" =>
        \A s \in Shifts :
            Shift_revenue(shiftobjs'[s], orders') = Shift_revenue(shiftobjs[s], orders)

(* C5: a shift's revenue is the sum of total_price over exactly the orders   *)
(* whose add_order returned normally, once per addition; it is 0 for a shift *)
(* without orders; close() does not change it.                               *)
C5_Revenue == []C5_RevenueOfAdded /\ [][C5_CloseKeepsRevenue]_vars

C5_Witness ==
    /\ call.op = "close"
    /\ call.res = "closed"
    /\ Len(added[call.s]) >= 1
    /\ Shift_revenue(shiftobjs[call.s], orders) > 0

(* C6: every order in a shift's order list is paid, has a payment time and   *)
(* has at least one portion.                                                 *)
C6_ShiftOrdersArePaid ==
    \A s \in Shifts :
        \A i \in 1..Len(shiftobjs[s].orders) :
            LET o == orders[shiftobjs[s].orders[i]]
            IN  /\ o.paid
                /\ o.time_of_payment # None
                /\ Len(o.portions) >= 1

C6_Witness ==
    \E s \in Shifts : Len(shiftobjs[s].orders) >= 1

(* C7: close() on a shift that is not open (never opened, or closed already) *)
(* ends with the shift-not-open error and leaves the shift's start time, end *)
(* time and order list as they are.                                          *)
C7_CloseNeedsOpenShift ==
    [][(call'.op = "close" /\ ~is_open(shiftobjs[call'.s])) =>
         /\ call'.res = "NotOpened"
         /\ shiftobjs'[call'.s] = shiftobjs[call'.s]]_vars

C7_Witness ==
    /\ call.op = "close"
    /\ call.res = "NotOpened"
    /\ Closed(shiftobjs[call.s])
    /\ shiftobjs[call.s].end_time < clock

(* C8: open() on an open shift raises nothing and leaves the shift's start   *)
(* time, end time and order list as they are.                                *)
C8_OpenOnOpenIsNoOp ==
    [][(call'.op = "open" /\ is_open(shiftobjs[call'.s])) =>
         /\ call'.res \notin Errors
         /\ shiftobjs'[call'.s] = shiftobjs[call'.s]]_vars

C8_Witness ==
    /\ call.op = "open"
    /\ call.res = "noop"
    /\ is_open(shiftobjs[call.s])
    /\ shiftobjs[call.s].start_time < clock

(* C9: pay() on an order without portions ends with the empty-order error    *)
(* and leaves the order unpaid, without a payment time.                      *)
C9_PayNeedsPortions ==
    [][(call'.op = "pay" /\ orders[call'.o].portions = <<>>) =>
         /\ call'.res = "EmptyOrder"
         /\ orders'[call'.o] = orders[call'.o]
         /\ ~orders'[call'.o].paid
         /\ orders'[call'.o].time_of_payment = None]_vars

C9_Witness ==
    /\ call.op = "pay"
    /\ call.res = "EmptyOrder"
    /\ ~orders[call.o].paid

\* the positions of the shift list that hold an open shift
C10_OpenShifts == { i \in 1..Len(shifts) : is_open(shiftobjs[shifts[i]]) }

\* in a state: no two shifts of the list are open
C10_AtMostOneOpen == Cardinality(C10_OpenShifts) <= 1

\* in a step: 'open shift' with the current shift open changes nothing
C10_OpenWhileOpen ==
    (call'.op = "_open_shift" /\ ShiftIsOpen(current_shift)) =>
        /\ call'.res = "already_opened"
        /\ shift_counter' = shift_counter
        /\ shiftobjs' = shiftobjs
        /\ shifts' = shifts
        /\ current_shift' = current_shift

(* C10: in the session at most one shift of the shift list is open, and an  *)
(* 'open shift' action taken while the current shift is open constructs no  *)
(* Shift, consumes no shift number and leaves the shift list and the        *)
(* current shift as they are.                                               *)
C10_OneOpenShift == []C10_AtMostOneOpen /\ [][C10_OpenWhileOpen]_vars

C10_Witness ==
    /\ call.op = "_open_shift"
    /\ call.res = "already_opened"
    /\ Len(shifts) = 2
    /\ Cardinality(C10_OpenShifts) = 1

\* in a state: the counter has counted the orders constructed, and the k-th
\* order constructed carries number k
C11_NumberIsRank ==
    /\ order_counter = Len(orders)
    /\ \A o \in Orders : orders[o].number = o
    /\ \A o1, o2 \in Orders : o1 # o2 => orders[o1].number # orders[o2].number

\* in a step: the counter does not go back and no order's number changes
C11_NumbersStay ==
    /\ order_counter' >= order_counter
    /\ \A o \in Orders : o \in DOMAIN orders' /\ orders'[o].number = orders[o].number

(* C11: order numbers come from one counter for the whole run.  The k-th    *)
(* Order constructed has number k, whatever happens to it later (paid,      *)
(* cancelled, added to a shift) and whichever shift is open; no two orders  *)
(* share a number; the counter never goes back, also not when a shift is    *)
(* closed and another one opened.                                           *)
C11_OrderNumbers == []C11_NumberIsRank /\ [][C11_NumbersStay]_vars

\* the second order of the run, started after the first was paid and added
C11_Witness ==
    /\ call.op = "Order"
    /\ Len(orders) = 2
    /\ orders[1].paid
    /\ orders[1].number = 1
    /\ orders[2].number = 2

\* in a state: the shift counter has counted the shifts constructed, and the
\* k-th shift constructed carries number k
C12_ShiftNumberIsRank ==
    /\ shift_counter = Len(shiftobjs)
    /\ \A s \in Shifts : shiftobjs[s].number = s

\* in a step: Order() moves the order counter only, Shift() the shift counter
\* only, no other call moves either, and no shift's number changes
C12_CountersApart ==
    /\ call'.op = "Order" =>
          shift_counter' = shift_counter /\ order_counter' = order_counter + 1
    /\ call'.op = "Shift" =>
          order_counter' = order_counter /\ shift_counter' = shift_counter + 1
    /\ call'.op \notin {"Order", "Shift"} =>
          order_counter' = order_counter /\ shift_counter' = shift_counter
    /\ \A s \in Shifts : shiftobjs'[s].number = shiftobjs[s].number

(* C12: shifts are numbered by a counter of their own.  The k-th Shift       *)
(* constructed has number k; constructing an Order leaves the shift counter  *)
(* as it is and constructing a Shift leaves the order counter as it is, in   *)
(* whatever order the constructions come.                                    *)
C12_ShiftNumbers == []C12_ShiftNumberIsRank /\ [][C12_CountersApart]_vars

\* the first Shift, constructed after an Order, has number 1
C12_Witness ==
    /\ call.op = "Shift"
    /\ order_counter = 1
    /\ orders[1].number = 1
    /\ shift_counter = 1
    /\ shiftobjs[1].number = 1

(* C13: Portion(...) with a balls_count list as long as the flavors list is *)
(* not ends with the composition error, whatever the counts add up to: the  *)
(* lengths are compared before the sum is compared with the capacity.       *)
C13_LengthCheckedFirst ==
    (pin.res # "pending" /\ Len(pin.balls_count) # Len(pin.flavors)) =>
        /\ pin.res = "LengthMismatch"
        /\ pin.portion = NoPortion

\* lists of different lengths whose counts exceed the container's capacity
C13_Witness ==
    /\ pin.res = "LengthMismatch"
    /\ Len(pin.balls_count) # Len(pin.flavors)
    /\ SumSeq(pin.balls_count) > containers[pin.container].max_balls

\* the price the data model gives a portion, line by line
RECURSIVE C14_LinesPrice(_, _)
C14_LinesPrice(fl, bc) ==
    IF fl = <<>> \/ bc = <<>> THEN 0
    ELSE flavors[Head(fl)].price_per_ball * Head(bc) + C14_LinesPrice(Tail(fl), Tail(bc))

C14_Price(p) ==
    containers[p.container].base_price
    + C14_LinesPrice(p.flavors, p.balls_count)
    + (IF p.topping = None THEN 0 ELSE topings[p.topping].price)

\* in a state: every price read from the constructed portion is its price
C14_ReadsArePrice ==
    pin.res = "ok" =>
        \A i \in 1..Len(pin.reads) : pin.reads[i] = C14_Price(pin.portion)

\* in a step: reading the price leaves the portion, and all else, as it is
C14_ReadChangesNothing ==
    Len(pin'.reads) > Len(pin.reads) =>
        /\ pin'.portion = pin.portion
        /\ [pin' EXCEPT !.reads = <<>>] = [pin EXCEPT !.reads = <<>>]
        /\ UNCHANGED <<coreVars, sessionVars>>

(* C14: the total_price of a constructed portion is the container's base    *)
(* price, plus price_per_ball times count for every line, plus the          *)
(* topping's price if there is a topping; reading it changes no state, so   *)
(* two readings of one portion agree.                                       *)
C14_TotalPrice == []C14_ReadsArePrice /\ [][C14_ReadChangesNothing]_vars

\* two readings of a cup with two balls of one flavor and a topping
C14_Witness ==
    /\ pin.res = "ok"
    /\ Len(pin.reads) = 2
    /\ pin.reads[1] = pin.reads[2]
    /\ pin.portion.balls_count = <<2>>
    /\ containers[pin.portion.container].base_price > 0
    /\ pin.portion.topping # None

\* which of the four combinations of its two timestamps a shift shows
C15_Config(sh) ==
    IF sh.start_time = None
    THEN (IF sh.end_time = None THEN "unopened" ELSE "ended_unstarted")
    ELSE (IF sh.end_time = None THEN "open" ELSE "closed")

\* in a state: no shift has an end time without a start time
C15_ThreeConfigs ==
    \A s \in Shifts : C15_Config(shiftobjs[s]) \in {"unopened", "open", "closed"}

\* in a step: a shift is constructed unopened, and a shift that changes its
\* configuration goes from unopened to open or from open to closed
C15_Transitions ==
    /\ \A s \in DOMAIN shiftobjs' :
          s \notin Shifts => C15_Config(shiftobjs'[s]) = "unopened"
    /\ \A s \in Shifts :
          \/ C15_Config(shiftobjs'[s]) = C15_Config(shiftobjs[s])
          \/ << C15_Config(shiftobjs[s]), C15_Config(shiftobjs'[s]) >>
                \in { <<"unopened", "open">>, <<"open", "closed">> }

(* C15: a shift is always unopened (no start, no end time), open (start     *)
(* time only) or closed (both); an end time without a start time is never   *)
(* reached; the only changes are unopened to open and open to closed.       *)
C15_ShiftLifecycle == []C15_ThreeConfigs /\ [][C15_Transitions]_vars

\* a shift that went through all three, next to one that was never opened
\* and refused to close
C15_Witness ==
    /\ call.op = "close"
    /\ call.res = "NotOpened"
    /\ C15_Config(shiftobjs[call.s]) = "unopened"
    /\ \E s \in Shifts : C15_Config(shiftobjs[s]) = "closed"

(* C19: add_order on an open shift with an order that has no portions ends  *)
(* with the empty-order error and changes nothing: the shift's order list   *)
(* and revenue are as before, the shift is still open, the order is still   *)
(* unpaid and without a payment time.                                       *)
C19_EmptyOrderNotAdded ==
    [][(/\ call'.op = "add_order"
        /\ is_open(shiftobjs[call'.s])
        /\ orders[call'.o].portions = <<>>) =>
         /\ call'.res = "EmptyOrder"
         /\ shiftobjs'[call'.s].orders = shiftobjs[call'.s].orders
         /\ Shift_revenue(shiftobjs'[call'.s], orders')
              = Shift_revenue(shiftobjs[call'.s], orders)
         /\ is_open(shiftobjs'[call'.s])
         /\ ~orders'[call'.o].paid
         /\ orders'[call'.o].time_of_payment = None
         /\ orders'[call'.o].portions = <<>>
         /\ added' = added]_vars

C19_Witness ==
    /\ call.op = "add_order"
    /\ call.res = "EmptyOrder"
    /\ is_open(shiftobjs[call.s])
    /\ orders[call.o].portions = <<>>
    /\ shiftobjs[call.s].orders = <<>>

\* in a step: a paid order stays as it is
C16_PaidIsFrozen ==
    \A o \in Orders : orders[o].paid => orders'[o] = orders[o]

\* in a step: an order in a shift's order list keeps its portions and its price
C16_AddedIsFrozen ==
    \A s \in Shifts :
        \A i \in 1..Len(shiftobjs[s].orders) :
            LET o == shiftobjs[s].orders[i]
            IN  /\ orders'[o].portions = orders[o].portions
                /\ Order_total_price(orders'[o]) = Order_total_price(orders[o])

\* in a step: a closed shift keeps its revenue
C16_ClosedRevenueStays ==
    \A s \in Shifts :
        Closed(shiftobjs[s]) =>
            Shift_revenue(shiftobjs'[s], orders') = Shift_revenue(shiftobjs[s], orders)

C17_LifecycleErrors == {"ReopenClosed", "NotOpened", "AddToClosed", "EmptyOrder"}

\* in a state: the last call did not end with a lifecycle error
C17_NoLifecycleError ==
    /\ call.res \notin C17_LifecycleErrors
    /\ pc = "crashed" => call.res \in Errors \ C17_LifecycleErrors

\* in a step: close() is called on an open shift, add_order on an open shift
\* with an order that has portions, open() on a shift constructed in the step
C17_CallsGuarded ==
    /\ call'.res = "closed" => ShiftIsOpen(current_shift) /\ call'.s = current_shift
    /\ call'.op = "add_order" =>
          /\ call'.s = current_shift
          /\ ShiftIsOpen(current_shift)
          /\ orders[call'.o].portions # <<>>
    /\ call'.res = "opened" =>
          /\ call'.s \notin Shifts
          /\ call'.s \in DOMAIN shiftobjs'

(* C17: no session action ends with a lifecycle error.  The session closes  *)
(* only an open shift, adds only an order with portions and only to an open *)
(* shift, and opens only a shift it has just constructed, so the reopen,    *)
(* shift-not-open and empty-order errors are not reached.                   *)
C17_NoLifecycleErrors == []C17_NoLifecycleError /\ [][C17_CallsGuarded]_vars

\* quitting with a shift open that has taken an order
C17_Witness ==
    /\ call.op = "_quit"
    /\ call.res = "closed"
    /\ pc = "exited"
    /\ Len(shiftobjs[call.s].orders) >= 1

\* what create_portion has collected is a composition for its container
C18_Composed ==
    /\ Len(loc.flavors) = Len(loc.balls_count)
    /\ Len(loc.flavors) >= 1
    /\ \A i \in 1..Len(loc.balls_count) : loc.balls_count[i] >= 1
    /\ SumSeq(loc.balls_count) <= containers[loc.container].max_balls

\* in a step: Portion(...) is called on a composition and accepts it; a
\* cancelled create_portion, and an 'X' at the first flavor prompt, construct
\* nothing
C18_BuilderStep ==
    /\ (call'.op = "Portion" /\ containers[loc.container].max_balls >= 1) =>
          /\ C18_Composed
          /\ call'.res = "ok"
          /\ pc' # "crashed"
          /\ Len(orders'[loc.order].portions) = Len(orders[loc.order].portions) + 1
    /\ (call'.op = "create_portion" /\ call'.res = "cancelled") =>
          /\ pc = "flavor" => loc.flavors = <<>>
          /\ orders' = orders
          /\ pc' = "another"
    /\ (pc = "flavor" /\ loc.flavors = <<>> /\ pc' # "count") =>
          /\ call'.op = "create_portion"
          /\ call'.res = "cancelled"

(* C18: whatever the operator answers, what create_portion hands to         *)
(* Portion(...) for a container of capacity >= 1 has as many counts as      *)
(* flavors, at least one line, every count >= 1 and a sum within the        *)
(* capacity, and the constructor accepts it; if the operator cancels before *)
(* any flavor is chosen, no Portion is constructed.                         *)
C18_BuilderHandsComposed == [][C18_BuilderStep]_vars

\* a cup of two flavors, one ball each, accepted
C18_Witness ==
    /\ call.op = "Portion"
    /\ call.res = "ok"
    /\ Len(orders[call.o].portions) = 1
    /\ orders[call.o].portions[1].balls_count = <<1, 1>>

(* C20: in the session the current shift is None or the last shift of the   *)
(* shift list, and then open; every other shift of the list is closed; no   *)
(* shift of the list is unopened; the numbers of the shifts in the list go  *)
(* up strictly.                                                             *)
C20_ShiftList ==
    /\ current_shift # None =>
          /\ shifts # <<>>
          /\ current_shift = shifts[Len(shifts)]
          /\ is_open(shiftobjs[current_shift])
    /\ \A i \in 1..Len(shifts) :
          /\ shifts[i] # current_shift =>
                /\ shiftobjs[shifts[i]].start_time # None
                /\ shiftobjs[shifts[i]].end_time # None
          /\ shiftobjs[shifts[i]].start_time # None
    /\ \A i, j \in 1..Len(shifts) :
          i < j => shiftobjs[shifts[i]].number < shiftobjs[shifts[j]].number

\* the second shift open, the first closed
C20_Witness ==
    /\ Len(shifts) = 2
    /\ current_shift = shifts[2]
    /\ is_open(shiftobjs[shifts[2]])
    /\ Closed(shiftobjs[shifts[1]])
    /\ pc = "menu"

=============================================================================
